---- MODULE Spec2Model ----
(***************************************************************************)
(* A model of xray/core/common.py: the axis resolver                       *)
(* (AbstractArray.get_axis_num), the iteration protocol                    *)
(* (AbstractArray.__iter__), the attribute fallback chain                  *)
(* (AttrAccessMixin.__getattr__), the reduction method synthesizer         *)
(* (_reduce_method of both container kinds), BaseDataObject.resample,      *)
(* squeeze and _maybe_promote.                                             *)
(*                                                                         *)
(* Each component has its own variables and its own specification; the     *)
(* variables of the other components stay at their idle values.            *)
(***************************************************************************)
EXTENDS Integers, Sequences, FiniteSets, TLC

VARIABLES
    dims,        \* AbstractArray.dims of the array get_axis_num is called on
    axis_call,   \* the last get_axis_num call: its argument and its outcome
    self_items,  \* the keys self[...] answers (AttrAccessMixin, source 1)
    attrs,       \* self.attrs (AttrAccessMixin, source 2)
    type_name,   \* type(self).__name__
    attr_call,   \* the last __getattr__ call: the name and the outcome
    shape,       \* the shape of the array that is iterated (ndim = Len(shape))
    iters,       \* the generator objects __iter__ has returned so far
    iter_err,    \* what the last __iter__ call raised ("none" when it returned)
    sq_dims,     \* squeeze: the dims mapping (name -> length)
    sq_call,     \* squeeze: the dim argument and the outcome of the last call
    isel_calls,  \* squeeze: the indexers of every xray_obj.isel call made
    pr_log,      \* _maybe_promote: the calls made, each with input and result
    red_op,      \* the wrapped_func synthesized by _reduce_method
    red_call,    \* the last call of wrapped_func: caller keywords, what reduce got
    rs            \* resample: the call in progress (arguments, phase, effects)

axisVars == <<dims, axis_call>>
attrVars == <<self_items, attrs, type_name, attr_call>>
iterVars == <<shape, iters, iter_err>>
sqVars == <<sq_dims, sq_call, isel_calls>>
prVars == <<pr_log>>
redVars == <<red_op, red_call>>
rsVars == <<rs>>
vars == <<dims, axis_call, self_items, attrs, type_name, attr_call, shape, iters,
          iter_err, sq_dims, sq_call, isel_calls, pr_log, red_op, red_call, rs>>

\* what a step of one component leaves alone: every other component
AxisFrame == UNCHANGED <<attrVars, iterVars, sqVars, prVars, redVars, rsVars>>
AttrFrame == UNCHANGED <<axisVars, iterVars, sqVars, prVars, redVars, rsVars>>
IterFrame == UNCHANGED <<axisVars, attrVars, sqVars, prVars, redVars, rsVars>>
SqFrame == UNCHANGED <<axisVars, attrVars, iterVars, prVars, redVars, rsVars>>
PrFrame == UNCHANGED <<axisVars, attrVars, iterVars, sqVars, redVars, rsVars>>
RedFrame == UNCHANGED <<axisVars, attrVars, iterVars, sqVars, prVars, rsVars>>
RsFrame == UNCHANGED <<axisVars, attrVars, iterVars, sqVars, prVars, redVars>>

(***************************************************************************)
(* Bounds of the model.                                                    *)
(***************************************************************************)
\* how many distinct dimension / key names are in play
NumNames == 3
\* the largest rank of an array
MaxRank == 3
\* the longest sequence of names passed in one call
MaxArgs == 2
\* the largest length of one dimension
MaxSize == 3

AllNames == <<"x", "y", "z", "t", "u", "v">>
Names == {AllNames[i] : i \in 1..NumNames}

\* sequences over S of length at most n
SeqsUpTo(S, n) == UNION {[1..k -> S] : k \in 0..n}
\* the same without repeated elements (dimension names are unique in an array)
UniqueSeqsUpTo(S, n) ==
    {s \in SeqsUpTo(S, n) : \A i, j \in DOMAIN s : i # j => s[i] # s[j]}
\* the elements of a sequence
Range(s) == {s[i] : i \in DOMAIN s}
\* finite mappings from a subset of K to V
Mappings(K, V) == UNION {[D -> V] : D \in SUBSET K}

(***************************************************************************)
(* Axis resolver: AbstractArray.get_axis_num / _get_axis_num.              *)
(***************************************************************************)
NoAxisCall ==
    [done |-> FALSE, isstr |-> FALSE, names |-> <<>>,
     kind |-> "none", val |-> <<>>, err_dim |-> "", err_dims |-> <<>>]

\* list.index / tuple.index: the zero-based position of the first element
\* equal to x, scanning from position i (one-based here); -1 stands for the
\* ValueError Python raises when there is none.
RECURSIVE index(_, _, _)
index(l, x, i) ==
    IF i > Len(l) THEN -1
    ELSE IF l[i] = x THEN i - 1
    ELSE index(l, x, i + 1)

\* faulty variant: never raises, hands the scan's "not found" back as a position
get_axis_num_noraise(ds, dim) ==
    [kind |-> "int", val |-> <<index(ds, dim, 1)>>, err_dim |-> "", err_dims |-> <<>>]

\* _get_axis_num(self, dim): self.dims.index(dim), the ValueError re-raised
\* with a message formatted from (dim, self.dims).
_get_axis_num(ds, dim) ==
    LET i == index(ds, dim, 1)
    IN  IF i = -1
        THEN [kind |-> "ValueError", val |-> <<>>, err_dim |-> dim, err_dims |-> ds]
        ELSE [kind |-> "int", val |-> <<i>>, err_dim |-> "", err_dims |-> <<>>]

\* tuple(self._get_axis_num(d) for d in dim): the generator is consumed left
\* to right; the first exception ends it and no tuple is built.
RECURSIVE axis_tuple(_, _, _)
axis_tuple(ds, names, acc) ==
    IF names = <<>>
    THEN [kind |-> "tuple", val |-> acc, err_dim |-> "", err_dims |-> <<>>]
    ELSE LET r == _get_axis_num(ds, Head(names))
         IN  IF r.kind = "ValueError" THEN r
             ELSE axis_tuple(ds, Tail(names), acc \o r.val)

\* faulty variant: the positions come back in reverse order of the names
RECURSIVE axis_tuple_rev(_, _, _)
axis_tuple_rev(ds, names, acc) ==
    IF names = <<>>
    THEN [kind |-> "tuple", val |-> acc, err_dim |-> "", err_dims |-> <<>>]
    ELSE LET r == _get_axis_num(ds, Head(names))
         IN  IF r.kind = "ValueError" THEN r
             ELSE axis_tuple_rev(ds, Tail(names), r.val \o acc)

\* faulty variant of axis_genexpr, built on axis_tuple_rev
axis_genexpr_rev(ds, names) == axis_tuple_rev(ds, names, <<>>)

\* the generator expression of get_axis_num's else branch
axis_genexpr(ds, names) == axis_tuple(ds, names, <<>>)

\* get_axis_num(self, dim): a string is one name, anything else is iterated.
get_axis_num(ds, isstr, names) ==
    IF isstr THEN _get_axis_num(ds, names[1]) ELSE axis_genexpr(ds, names)

AxisInit ==
    /\ dims \in UniqueSeqsUpTo(Names, MaxRank)
    /\ axis_call = NoAxisCall
AxisIdle ==
    /\ dims = <<>>
    /\ axis_call = NoAxisCall

\* a call get_axis_num(d) with one name
GetAxisNumStr(d) ==
    /\ axis_call' = [done |-> TRUE, isstr |-> TRUE, names |-> <<d>>]
                        @@ get_axis_num(dims, TRUE, <<d>>)
    /\ UNCHANGED dims
    /\ AxisFrame

\* a call get_axis_num(ds) with a sequence of names
GetAxisNumSeq(names) ==
    /\ axis_call' = [done |-> TRUE, isstr |-> FALSE, names |-> names]
                        @@ get_axis_num(dims, FALSE, names)
    /\ UNCHANGED dims
    /\ AxisFrame

AxisNext ==
    \/ \E d \in Names : GetAxisNumStr(d)
    \/ \E names \in SeqsUpTo(Names, MaxArgs) : GetAxisNumSeq(names)

\* the names of the last call that are not dimensions of the array
MissingNames == Range(axis_call.names) \ Range(dims)

\* C1: a name of dims resolves to its zero-based position in dims, and a
\* sequence of names of dims resolves to the tuple of their positions, as
\* long as the sequence and in its order.
C1_AxisPositions ==
    (axis_call.done /\ MissingNames = {}) =>
        IF axis_call.isstr
        THEN /\ axis_call.kind = "int"
             /\ Len(axis_call.val) = 1
             /\ axis_call.val[1] \in 0..(Len(dims) - 1)
             /\ dims[axis_call.val[1] + 1] = axis_call.names[1]
        ELSE /\ axis_call.kind = "tuple"
             /\ Len(axis_call.val) = Len(axis_call.names)
             /\ \A i \in DOMAIN axis_call.names :
                    /\ axis_call.val[i] \in 0..(Len(dims) - 1)
                    /\ dims[axis_call.val[i] + 1] = axis_call.names[i]

\* C1's case: a sequence of two names of dims, given in descending position
C1_Witness ==
    /\ axis_call.done /\ ~axis_call.isstr /\ MissingNames = {}
    /\ axis_call.kind = "tuple"
    /\ Len(axis_call.val) = 2
    /\ axis_call.val[1] > axis_call.val[2]

\* C2: a name that is not in dims, alone or anywhere in a sequence, makes the
\* call fail with the ValueError that carries the (first) missing name and
\* the whole of dims; no position and no partial tuple comes back, and dims
\* is never changed by a call.
C2_MissingDimRaises ==
    /\ [](( axis_call.done /\ MissingNames # {}) =>
            /\ axis_call.kind = "ValueError"
            /\ axis_call.val = <<>>
            /\ axis_call.err_dim \in MissingNames
            /\ \E i \in DOMAIN axis_call.names :
                  /\ axis_call.names[i] = axis_call.err_dim
                  /\ \A j \in 1..(i - 1) : axis_call.names[j] \in Range(dims)
            /\ axis_call.err_dims = dims)
    /\ [][dims' = dims]_vars

\* C2's case: a sequence whose first name resolves and whose second is missing
C2_Witness ==
    /\ axis_call.done /\ ~axis_call.isstr
    /\ Len(axis_call.names) = 2
    /\ axis_call.names[1] \in Range(dims)
    /\ axis_call.names[2] \notin Range(dims)
    /\ axis_call.kind = "ValueError"
    /\ Len(dims) >= 1

(***************************************************************************)
(* Attribute resolution chain: AttrAccessMixin.__getattr__.                *)
(***************************************************************************)
\* how many distinct keys self and attrs can hold
NumKeys == 2
Keys == {AllNames[i] : i \in 1..NumKeys}
\* the values a key can hold
NumVals == 2
Vals == 1..NumVals
TypeNames == {"DataArray", "Dataset"}

NoAttrCall == [done |-> FALSE, name |-> "", kind |-> "none", val |-> 0,
               err_type |-> "", err_name |-> ""]

\* faulty variant: attrs is consulted before self
attr_sources_swapped(s, a) == <<a, s>>

\* __attr_sources__: [self, self.attrs]
attr_sources(s, a) == <<s, a>>

\* the for loop of __getattr__ from source i on: source[name] is returned
\* unless it raises KeyError; past the last source AttributeError is raised
\* with (type(self).__name__, name).
RECURSIVE getattr_from(_, _, _, _)
getattr_from(sources, tname, name, i) ==
    IF i > Len(sources)
    THEN [kind |-> "AttributeError", val |-> 0, err_type |-> tname, err_name |-> name]
    ELSE IF name \in DOMAIN sources[i]
         THEN [kind |-> "value", val |-> sources[i][name], err_type |-> "", err_name |-> ""]
         ELSE getattr_from(sources, tname, name, i + 1)

\* __getattr__(self, name)
getattr(s, a, tname, name) == getattr_from(attr_sources(s, a), tname, name, 1)

AttrInit ==
    /\ self_items \in Mappings(Keys, Vals)
    /\ attrs \in Mappings(Keys, Vals)
    /\ type_name \in TypeNames
    /\ attr_call = NoAttrCall
AttrIdle ==
    /\ self_items = <<>>
    /\ attrs = <<>>
    /\ type_name = "DataArray"
    /\ attr_call = NoAttrCall

\* an attribute-style access self.<name> that normal member lookup missed
GetAttr(name) ==
    /\ attr_call' = [done |-> TRUE, name |-> name]
                        @@ getattr(self_items, attrs, type_name, name)
    /\ UNCHANGED <<self_items, attrs, type_name>>
    /\ AttrFrame

AttrNext == \E name \in Keys : GetAttr(name)

\* C3: the lookup returns the value of the first of [self, attrs] that holds
\* the name, self before attrs, and raises AttributeError, with the owning
\* type's name and the attribute name, exactly when neither holds it.
C3_FirstSourceWins ==
    attr_call.done =>
        LET n == attr_call.name
        IN  /\ n \in DOMAIN self_items =>
                (attr_call.kind = "value" /\ attr_call.val = self_items[n])
            /\ (n \notin DOMAIN self_items /\ n \in DOMAIN attrs) =>
                (attr_call.kind = "value" /\ attr_call.val = attrs[n])
            /\ (attr_call.kind = "AttributeError") <=>
                (n \notin DOMAIN self_items /\ n \notin DOMAIN attrs)
            /\ attr_call.kind = "AttributeError" =>
                (attr_call.err_type = type_name /\ attr_call.err_name = n)

\* C3's case: both sources hold the name, with different values
C3_Witness ==
    /\ attr_call.done
    /\ attr_call.name \in DOMAIN self_items
    /\ attr_call.name \in DOMAIN attrs
    /\ self_items[attr_call.name] # attrs[attr_call.name]
    /\ attr_call.kind = "value"

(***************************************************************************)
(* Iteration protocol: AbstractArray.__iter__ / _iter.                     *)
(***************************************************************************)
\* the largest rank of an iterated array
MaxNdim == 2
\* how many generator objects are kept
MaxIters == 2

NoIterErr == [requested |-> FALSE, kind |-> "none", msg |-> ""]

\* self.ndim: the rank
ndim(shp) == Len(shp)
\* len(self): the size of the leading dimension
len_self(shp) == shp[1]

\* the generator object a call of _iter() returns: no line of the body has run
new_generator == [state |-> "created", n |-> 0, stop |-> 0, yielded |-> <<>>]

\* faulty variant: the cursor is kept on the array, shared by all its generators
gen_next_shared(g, shp) ==
    LET stop == IF g.state = "created" THEN len_self(shp) ELSE g.stop
        c == IF \E i \in DOMAIN iters : iters[i].n > g.n
             THEN CHOOSE m \in {iters[i].n : i \in DOMAIN iters} :
                      \A i \in DOMAIN iters : iters[i].n <= m
             ELSE g.n
    IN  IF c < stop
        THEN [state |-> "suspended", n |-> c + 1, stop |-> stop,
              yielded |-> Append(g.yielded, c)]
        ELSE [state |-> "done", n |-> c, stop |-> stop, yielded |-> g.yielded]

\* one next() on a generator of _iter: the first runs range(len(self)); each
\* yields self[n] for the next n of the range, or ends the generator when
\* the range is used up. g.n is the generator's own cursor.
gen_next(g, shp) ==
    LET stop == IF g.state = "created" THEN len_self(shp) ELSE g.stop
    IN  IF g.n < stop
        THEN [state |-> "suspended", n |-> g.n + 1, stop |-> stop,
              yielded |-> Append(g.yielded, g.n)]
        ELSE [state |-> "done", n |-> g.n, stop |-> stop, yielded |-> g.yielded]

IterInit ==
    /\ shape \in SeqsUpTo(0..MaxSize, MaxNdim)
    /\ iters = <<>>
    /\ iter_err = NoIterErr
IterIdle ==
    /\ shape = <<>>
    /\ iters = <<>>
    /\ iter_err = NoIterErr

\* iter(self) on a rank-0 array: __iter__ raises before any generator exists
IterRank0 ==
    /\ ndim(shape) = 0
    /\ iter_err' = [requested |-> TRUE, kind |-> "TypeError",
                    msg |-> "iteration over a 0-d array"]
    /\ UNCHANGED <<shape, iters>>
    /\ IterFrame

\* iter(self) on an array of rank >= 1: __iter__ returns self._iter()
IterRequest ==
    /\ ndim(shape) # 0
    /\ Len(iters) < MaxIters
    /\ iters' = Append(iters, new_generator)
    /\ iter_err' = [requested |-> TRUE, kind |-> "none", msg |-> ""]
    /\ UNCHANGED shape
    /\ IterFrame

\* next() on the i-th generator (a finished generator only raises again)
IterStep(i) ==
    /\ iters[i].state # "done"
    /\ iters' = [iters EXCEPT ![i] = gen_next(iters[i], shape)]
    /\ UNCHANGED <<shape, iter_err>>
    /\ IterFrame

IterNext ==
    \/ IterRank0
    \/ IterRequest
    \/ \E i \in DOMAIN iters : IterStep(i)

\* C4: on a rank-0 array a request to iterate raises TypeError at once and
\* no generator is made; on an array whose leading dimension has size k
\* every generator yields self[0], self[1], ... in order, never more than k,
\* and has yielded exactly k when it ends, however the generators of the
\* same array are interleaved.
C4_IterationYieldsLeadingDim ==
    /\ ndim(shape) = 0 =>
          /\ iters = <<>>
          /\ iter_err.requested => iter_err.kind = "TypeError"
    /\ ndim(shape) # 0 =>
          /\ iter_err.kind = "none"
          /\ \A i \in DOMAIN iters :
                LET g == iters[i]
                IN  /\ g.yielded = [j \in 1..Len(g.yielded) |-> j - 1]
                    /\ Len(g.yielded) <= shape[1]
                    /\ g.state = "done" => Len(g.yielded) = shape[1]

\* C4's case: two generators of one array, interleaved: the second has run
\* to its end while the first is suspended after its first element
C4_Witness ==
    /\ Len(iters) = 2
    /\ shape[1] >= 2
    /\ iters[1].state = "suspended" /\ Len(iters[1].yielded) = 1
    /\ iters[2].state = "done" /\ Len(iters[2].yielded) = shape[1]

(***************************************************************************)
(* squeeze(xray_obj, dims, dim=None).                                      *)
(***************************************************************************)
NoSqCall == [done |-> FALSE, argkind |-> "None", names |-> <<>>, kind |-> "none"]

\* faulty variant: only the first name's length is looked at
any_gt_one_first(ds, names) ==
    IF names = <<>> THEN "False"
    ELSE IF Head(names) \notin DOMAIN ds THEN "KeyError"
    ELSE IF ds[Head(names)] > 1 THEN "True"
    ELSE "False"

\* any(dims[k] > 1 for k in dim): the names are visited in order, any()
\* stops at the first true element, and dims[k] raises KeyError for a name
\* that is no key of dims.
RECURSIVE any_gt_one(_, _)
any_gt_one(ds, names) ==
    IF names = <<>> THEN "False"
    ELSE IF Head(names) \notin DOMAIN ds THEN "KeyError"
    ELSE IF ds[Head(names)] > 1 THEN "True"
    ELSE any_gt_one(ds, Tail(names))

\* squeeze: the outcome and, when isel is reached, the indexers
\* dict((d, 0) for d in dim) it is called with. With dim=None the names are
\* those of length 1; a string is wrapped in a list.
squeeze(ds, argkind, names) ==
    IF argkind = "None"
    THEN [kind |-> "isel", indexers |-> [d \in {k \in DOMAIN ds : ds[k] = 1} |-> 0]]
    ELSE LET a == any_gt_one(ds, names)
         IN  IF a = "KeyError" THEN [kind |-> "KeyError", indexers |-> <<>>]
             ELSE IF a = "True" THEN [kind |-> "ValueError", indexers |-> <<>>]
             ELSE [kind |-> "isel", indexers |-> [d \in Range(names) |-> 0]]

SqInit ==
    /\ sq_dims \in Mappings(Keys, 0..MaxSize)
    /\ sq_call = NoSqCall
    /\ isel_calls = <<>>
SqIdle ==
    /\ sq_dims = <<>>
    /\ sq_call = NoSqCall
    /\ isel_calls = <<>>

\* one call of squeeze; isel_calls holds the isel calls this call made
Squeeze(argkind, names) ==
    LET r == squeeze(sq_dims, argkind, names)
    IN  /\ sq_call' = [done |-> TRUE, argkind |-> argkind, names |-> names,
                       kind |-> r.kind]
        /\ isel_calls' = IF r.kind = "isel" THEN <<r.indexers>> ELSE <<>>
        /\ UNCHANGED sq_dims
        /\ SqFrame

SqNext ==
    \/ Squeeze("None", <<>>)
    \/ \E d \in Names : Squeeze("str", <<d>>)
    \/ \E names \in SeqsUpTo(Names, MaxArgs) : Squeeze("seq", names)

\* the names the last squeeze call was given
SqNamed == Range(sq_call.names)

\* C5 (as amended): with dim=None index 0 is selected along exactly the
\* dimensions of length 1. With an explicit dim whose names are all keys of
\* dims, the call raises ValueError and makes no isel call if a named
\* dimension is longer than 1, and otherwise makes one isel call selecting
\* index 0 along exactly the named dimensions. A name that is no key of
\* dims ends the call with KeyError or ValueError, and no isel call.
C5_SqueezeSelection ==
    sq_call.done =>
        /\ sq_call.argkind = "None" =>
              /\ sq_call.kind = "isel"
              /\ isel_calls = << [d \in {k \in DOMAIN sq_dims : sq_dims[k] = 1} |-> 0] >>
        /\ (sq_call.argkind # "None" /\ SqNamed \subseteq DOMAIN sq_dims) =>
              IF \E k \in SqNamed : sq_dims[k] > 1
              THEN sq_call.kind = "ValueError" /\ isel_calls = <<>>
              ELSE sq_call.kind = "isel" /\ isel_calls = << [d \in SqNamed |-> 0] >>
        /\ (sq_call.argkind # "None" /\ ~(SqNamed \subseteq DOMAIN sq_dims)) =>
              sq_call.kind \in {"KeyError", "ValueError"} /\ isel_calls = <<>>

\* C5's case: two named dimensions, the first of length 1, the second longer
C5_Witness ==
    /\ sq_call.done /\ sq_call.argkind = "seq"
    /\ Len(sq_call.names) = 2
    /\ SqNamed \subseteq DOMAIN sq_dims
    /\ sq_dims[sq_call.names[1]] = 1
    /\ sq_dims[sq_call.names[2]] > 1
    /\ sq_call.kind = "ValueError"
    /\ isel_calls = <<>>

\* C5 as stated: with an explicit dim the call raises ValueError, with no
\* isel call, if any named dimension is longer than 1, and otherwise
\* selects index 0 along exactly the named dimensions.
C5_Original ==
    sq_call.done =>
        /\ sq_call.argkind = "None" =>
              /\ sq_call.kind = "isel"
              /\ isel_calls = << [d \in {k \in DOMAIN sq_dims : sq_dims[k] = 1} |-> 0] >>
        /\ sq_call.argkind # "None" =>
              IF \E k \in SqNamed \cap DOMAIN sq_dims : sq_dims[k] > 1
              THEN sq_call.kind = "ValueError" /\ isel_calls = <<>>
              ELSE sq_call.kind = "isel" /\ isel_calls = << [d \in SqNamed |-> 0] >>

(***************************************************************************)
(* _maybe_promote(dtype).                                                  *)
(***************************************************************************)
\* how many _maybe_promote calls are kept in the log
MaxPromotions == 2

\* numpy's scalar type hierarchy: each type's base class
np_parent ==
    [bool_ |-> "generic", object_ |-> "generic", datetime64 |-> "generic",
     number |-> "generic", flexible |-> "generic",
     integer |-> "number", inexact |-> "number",
     signedinteger |-> "integer", unsignedinteger |-> "integer",
     floating |-> "inexact", complexfloating |-> "inexact",
     character |-> "flexible", void |-> "flexible",
     string_ |-> "character", unicode_ |-> "character",
     int8 |-> "signedinteger", int16 |-> "signedinteger",
     int32 |-> "signedinteger", int64 |-> "signedinteger",
     timedelta64 |-> "signedinteger",
     uint8 |-> "unsignedinteger", uint16 |-> "unsignedinteger",
     uint32 |-> "unsignedinteger", uint64 |-> "unsignedinteger",
     float16 |-> "floating", float32 |-> "floating", float64 |-> "floating",
     complex64 |-> "complexfloating", complex128 |-> "complexfloating"]

\* the types an array can have
DTypes ==
    {"bool_", "object_", "datetime64", "timedelta64", "void", "string_", "unicode_",
     "int8", "int16", "int32", "int64", "uint8", "uint16", "uint32", "uint64",
     "float16", "float32", "float64", "complex64", "complex128"}

\* issubclass on numpy's scalar types
RECURSIVE issubclass(_, _)
issubclass(t, c) ==
    IF t = c THEN TRUE
    ELSE IF t = "generic" THEN FALSE
    ELSE issubclass(np_parent[t], c)

\* np.issubdtype(dtype, arg2) for the second arguments _maybe_promote uses.
\* A second argument that is no numpy scalar type (the builtins float, int)
\* is replaced by the second entry of the mro of dtype(arg2).type: float
\* (float64) by floating, int (int_) by signedinteger.
issubdtype(t, arg2) ==
    CASE arg2 = "float" -> issubclass(t, "floating")
      [] arg2 = "int" -> issubclass(t, "signedinteger")
      [] OTHER -> issubclass(t, arg2)

\* _maybe_promote(dtype): (dtype, fill_value)
_maybe_promote(dtype) ==
    IF issubdtype(dtype, "float") THEN [dtype |-> dtype, fill |-> "nan"]
    ELSE IF issubdtype(dtype, "int") THEN [dtype |-> "float64", fill |-> "nan"]
    ELSE IF issubdtype(dtype, "datetime64") THEN [dtype |-> dtype, fill |-> "NaT"]
    ELSE [dtype |-> "object_", fill |-> "nan"]

PrInit == pr_log = <<>>
PrIdle == pr_log = <<>>

\* a call _maybe_promote(t)
MaybePromote(t) ==
    /\ Len(pr_log) < MaxPromotions
    /\ pr_log' = Append(pr_log, [in |-> t, again |-> FALSE, out |-> _maybe_promote(t)])
    /\ PrFrame

\* a call _maybe_promote on the type the last call returned
PromoteAgain ==
    /\ pr_log # <<>>
    /\ Len(pr_log) < MaxPromotions
    /\ LET t == pr_log[Len(pr_log)].out.dtype
       IN  pr_log' = Append(pr_log, [in |-> t, again |-> TRUE, out |-> _maybe_promote(t)])
    /\ PrFrame

PrNext ==
    \/ \E t \in DTypes : MaybePromote(t)
    \/ PromoteAgain

\* the categories of the promotion table, by numpy's abstract types (which
\* count timedelta64 among the integers)
IsFloating(t) == issubclass(t, "floating")
IsDatetimeLike(t) == issubclass(t, "datetime64")
IsInteger(t) == issubclass(t, "integer")

\* the promoted type cannot hold every value of the input type
Narrower(to, from) ==
    ~ \/ to = from
      \/ to = "object_"
      \/ IsInteger(from) /\ to = "float64"

\* C6: every call follows the table: floating-point -> (unchanged, NaN),
\* integer -> (floating-point, NaN), datetime-like -> (unchanged, NaT),
\* anything else -> (object, NaN); the promoted type is never narrower than
\* the input, and promoting a promoted type changes nothing.
C6_PromotionTable ==
    \A i \in DOMAIN pr_log :
        LET t == pr_log[i].in
            r == pr_log[i].out
        IN  /\ IsFloating(t) => r = [dtype |-> t, fill |-> "nan"]
            /\ IsInteger(t) => (IsFloating(r.dtype) /\ r.fill = "nan")
            /\ IsDatetimeLike(t) => r = [dtype |-> t, fill |-> "NaT"]
            /\ ~(IsFloating(t) \/ IsInteger(t) \/ IsDatetimeLike(t)) =>
                    r = [dtype |-> "object_", fill |-> "nan"]
            /\ ~Narrower(r.dtype, t)
            /\ pr_log[i].again => r = pr_log[i - 1].out

(***************************************************************************)
(* Reduction method synthesizer: ImplementsArrayReduce._reduce_method and  *)
(* ImplementsDatasetReduce._reduce_method.                                 *)
(***************************************************************************)
Kinds == {"Array", "Dataset"}
Funcs == {"sum", "argmax"}

\* the keywords a caller may pass, each with the values it may take
KwVals ==
    [dim |-> {"x"}, axis |-> {"0"}, skipna |-> {"True", "False"},
     keep_attrs |-> {"True"}, numeric_only |-> {"True", "False"}]
KwNames == DOMAIN KwVals
CallerKws ==
    {kw \in Mappings(KwNames, UNION {KwVals[k] : k \in KwNames}) :
        \A k \in DOMAIN kw : kw[k] \in KwVals[k]}

\* repr of a Python bool
PyBool(b) == IF b THEN "True" ELSE "False"

NoRedOp == [made |-> FALSE, kind |-> "Array", func |-> "sum",
            include_skipna |-> FALSE, numeric_only |-> FALSE]
NoRedCall == [done |-> FALSE, kw |-> <<>>, kind |-> "none", pos |-> <<>>, fkw |-> <<>>]

\* _reduce_method(cls, func, include_skipna, numeric_only): the closure
\* wrapped_func, which captures func and, for the Dataset kind, numeric_only
_reduce_method(kind, func, include_skipna, numeric_only) ==
    [made |-> TRUE, kind |-> kind, func |-> func,
     include_skipna |-> include_skipna, numeric_only |-> numeric_only]

\* the named parameters of wrapped_func (self aside); any other keyword of
\* the caller lands in **kwargs
wrapped_params(op) ==
    IF op.kind = "Array"
    THEN (IF op.include_skipna THEN {"dim", "axis", "skipna", "keep_attrs"}
          ELSE {"dim", "axis", "keep_attrs"})
    ELSE (IF op.include_skipna THEN {"dim", "keep_attrs", "skipna"}
          ELSE {"dim", "keep_attrs"})

\* the value of parameter k: the caller's, or the default of the signature
param(kw, k, default) == IF k \in DOMAIN kw THEN kw[k] ELSE default

\* faulty variant: skipna=skipna is left out of the reduce call
explicit_kw_noskipna(op, kw) ==
    IF op.kind = "Dataset" THEN [numeric_only |-> PyBool(op.numeric_only)] ELSE <<>>

\* the keywords wrapped_func writes out in its call of self.reduce
explicit_kw(op, kw) ==
    (IF op.include_skipna THEN [skipna |-> param(kw, "skipna", "None")] ELSE <<>>)
    @@ (IF op.kind = "Dataset" THEN [numeric_only |-> PyBool(op.numeric_only)] ELSE <<>>)

\* wrapped_func(self, **kw): the call self.reduce(...) it makes, or the
\* TypeError Python raises when **kwargs repeats a keyword written out in
\* the call
wrapped_func(op, kw) ==
    LET kwargs == [k \in DOMAIN kw \ wrapped_params(op) |-> kw[k]]
        explicit == explicit_kw(op, kw)
        dim == param(kw, "dim", "None")
        keep_attrs == param(kw, "keep_attrs", "False")
    IN  IF DOMAIN kwargs \cap DOMAIN explicit # {}
        THEN [kind |-> "TypeError", pos |-> <<>>, fkw |-> <<>>]
        ELSE [kind |-> "reduce",
              pos |-> IF op.kind = "Array"
                      THEN <<op.func, dim, param(kw, "axis", "None"), keep_attrs>>
                      ELSE <<op.func, dim, keep_attrs>>,
              fkw |-> explicit @@ kwargs]

RedInit ==
    /\ red_op = NoRedOp
    /\ red_call = NoRedCall
RedIdle ==
    /\ red_op = NoRedOp
    /\ red_call = NoRedCall

\* a reduction method is synthesized for a container kind
Synthesize(kind, func, include_skipna, numeric_only) ==
    /\ red_op' = _reduce_method(kind, func, include_skipna, numeric_only)
    /\ red_call' = NoRedCall
    /\ RedFrame

\* the synthesized method is called with keyword arguments kw
CallReduction(kw) ==
    /\ red_op.made
    /\ red_call' = [done |-> TRUE, kw |-> kw] @@ wrapped_func(red_op, kw)
    /\ UNCHANGED red_op
    /\ RedFrame

RedNext ==
    \/ \E kind \in Kinds, func \in Funcs, sk \in BOOLEAN, no \in BOOLEAN :
          Synthesize(kind, func, sk, no)
    \/ \E kw \in CallerKws : CallReduction(kw)

\* keep_attrs as reduce received it (its place differs between the kinds)
FwdKeepAttrs == red_call.pos[Len(red_call.pos)]

\* C7 (as amended): a reduction synthesized with include_skipna declares
\* skipna (default None) and always forwards it; keep_attrs defaults to
\* False; the Dataset kind forwards the numeric_only fixed at synthesis, and a
\* caller who passes numeric_only gets TypeError; every other keyword of the
\* caller goes to reduce unchanged through **kwargs, so a reduction
\* synthesized without include_skipna forwards skipna exactly when the
\* caller passes it, and the Array kind forwards numeric_only exactly when
\* the caller passes it (never the flag given at synthesis).
C7_ReduceForwarding ==
    red_call.done =>
        LET kw == red_call.kw
            f == red_call.fkw
        IN  /\ red_call.kind = "TypeError" <=>
                  (red_op.kind = "Dataset" /\ "numeric_only" \in DOMAIN kw)
            /\ red_call.kind = "reduce" =>
                  /\ red_op.include_skipna =>
                        /\ "skipna" \in DOMAIN f
                        /\ f["skipna"] = IF "skipna" \in DOMAIN kw THEN kw["skipna"]
                                         ELSE "None"
                  /\ ~red_op.include_skipna =>
                        /\ "skipna" \in DOMAIN f <=> "skipna" \in DOMAIN kw
                        /\ "skipna" \in DOMAIN f => f["skipna"] = kw["skipna"]
                  /\ FwdKeepAttrs = IF "keep_attrs" \in DOMAIN kw THEN kw["keep_attrs"]
                                    ELSE "False"
                  /\ red_op.kind = "Dataset" =>
                        /\ "numeric_only" \in DOMAIN f
                        /\ f["numeric_only"] = PyBool(red_op.numeric_only)
                  /\ red_op.kind = "Array" =>
                        /\ "numeric_only" \in DOMAIN f <=> "numeric_only" \in DOMAIN kw
                        /\ "numeric_only" \in DOMAIN f =>
                              f["numeric_only"] = kw["numeric_only"]

\* C7's case: a Dataset reduction synthesized with include_skipna and
\* numeric_only, called without skipna: reduce gets skipna=None and the flag
C7_Witness ==
    /\ red_call.done /\ red_call.kind = "reduce"
    /\ red_op.kind = "Dataset" /\ red_op.include_skipna /\ red_op.numeric_only
    /\ "skipna" \notin DOMAIN red_call.kw
    /\ red_call.fkw["skipna"] = "None"
    /\ red_call.fkw["numeric_only"] = "True"

\* C7 as stated: skipna reaches reduce if and only if the reduction was
\* synthesized with include_skipna (None when the caller omits it),
\* keep_attrs defaults to False, the Dataset kind forwards the numeric_only fixed
\* at synthesis on every call, and the Array kind never forwards numeric_only.
C7_Original ==
    (red_call.done /\ red_call.kind = "reduce") =>
        LET kw == red_call.kw
            f == red_call.fkw
        IN  /\ "skipna" \in DOMAIN f <=> red_op.include_skipna
            /\ red_op.include_skipna =>
                  f["skipna"] = IF "skipna" \in DOMAIN kw THEN kw["skipna"] ELSE "None"
            /\ FwdKeepAttrs = IF "keep_attrs" \in DOMAIN kw THEN kw["keep_attrs"]
                              ELSE "False"
            /\ red_op.kind = "Dataset" =>
                  /\ "numeric_only" \in DOMAIN f
                  /\ f["numeric_only"] = PyBool(red_op.numeric_only)
            /\ red_op.kind = "Array" => "numeric_only" \notin DOMAIN f

(***************************************************************************)
(* BaseDataObject.resample(freq, dim, how, skipna, closed, label, base).   *)
(* One action per statement of the body; rs.pc is the statement to run     *)
(* next, rs.trace the phases completed, rs.calls the calls made on the     *)
(* grouping object gb.                                                     *)
(***************************************************************************)
RESAMPLE_DIM == "__resample_dim__"

\* the aggregations the docstring lists, and the two selections
AggNames == {"all", "any", "argmax", "argmin", "max", "mean", "median", "min",
             "prod", "sum", "std", "var"}
Selections == {"first", "last"}
\* the attributes getattr(gb, how) finds: the aggregations, first and last,
\* and reduce, which resample itself calls on gb
gb_members == AggNames \cup Selections \cup {"reduce"}

\* the values of how, skipna that are tried
HowStrings == {"mean", "sum", "first", "last", "reduce", "nosuch"}
HowFuncs == {"f"}
SkipnaVals == {"None", "True", "False"}

\* the objects resample is called on: dims, and whether the coordinates are
\* time-typed
RsObjects ==
    {[dims |-> d, time_typed |-> b] :
        d \in UniqueSeqsUpTo(Names, MaxNdim), b \in BOOLEAN}

RsIdle(obj) ==
    [pc |-> "idle", self |-> obj, dim_isstr |-> TRUE, dim |-> "", how_isstr |-> TRUE,
     how |-> "", skipna |-> "None", dim_name |-> "", group_name |-> "",
     f |-> "", trace |-> <<>>, calls |-> <<>>, has_result |-> FALSE,
     result |-> <<>>, err |-> "", err_at |-> ""]

\* a sequence with every old replaced by new
Replace(seq, old, new) == [i \in DOMAIN seq |-> IF seq[i] = old THEN new ELSE seq[i]]

\* self[dim]: the variable of that name, KeyError when there is none
HasVariable(obj, name) == name \in Range(obj.dims)

\* groupby_cls(self, group, grouper=time_grouper): the error of the
\* construction, "" when the grouping is built
groupby_error(obj, dim_name) ==
    IF dim_name \notin Range(obj.dims) THEN "ValueError"
    ELSE IF ~obj.time_typed THEN "TypeError"
    ELSE ""

\* what a call on gb gives: reduce needs its function; every aggregation
\* returns the groups' results concatenated along the dimension named after
\* the group array
gb_call(obj, dim_name, group_name, call) ==
    IF call.target = "reduce" /\ call.func = ""
    THEN [err |-> "TypeError", dims |-> <<>>]
    ELSE [err |-> "", dims |-> Replace(obj.dims, dim_name, group_name)]

\* result.rename(name_dict): a new object with the dimension renamed
rename(ds, name_dict) == Replace(ds, name_dict.old, name_dict.new)

\* faulty variant: f(dim=dim.name, skipna=skipna) for every name
named_call_nodispatch(how, dim_name, skipna) ==
    [target |-> how, func |-> "", kw |-> [dim |-> dim_name, skipna |-> skipna]]

\* f(skipna=skipna) for first and last, f(dim=dim.name, skipna=skipna) for any
\* other name
named_call(how, dim_name, skipna) ==
    IF how \in {"first", "last"}
    THEN [target |-> how, func |-> "", kw |-> [skipna |-> skipna]]
    ELSE [target |-> how, func |-> "", kw |-> [dim |-> dim_name, skipna |-> skipna]]

\* gb.reduce(how, dim=dim.name)
func_call(how, dim_name, skipna) ==
    [target |-> "reduce", func |-> how, kw |-> [dim |-> dim_name]]

\* faulty variant: the rename goes the wrong way
rename_dict_swapped(dim_name) == [old |-> dim_name, new |-> RESAMPLE_DIM]

\* {RESAMPLE_DIM: dim.name}
rename_dict(dim_name) == [old |-> RESAMPLE_DIM, new |-> dim_name]

RsInit == rs \in {RsIdle(obj) : obj \in RsObjects}
RsIdleInit == rs = RsIdle([dims |-> <<>>, time_typed |-> TRUE])

RsRaise(kind, at) == rs' = [rs EXCEPT !.pc = "raised", !.err = kind, !.err_at = at]

\* the call, and "if isinstance(dim, basestring): dim = self[dim]"
Resample(dim_isstr, dim, how_isstr, how, skipna) ==
    /\ rs.pc = "idle"
    /\ RsFrame
    /\ LET r == [rs EXCEPT !.dim_isstr = dim_isstr, !.dim = dim,
                           !.how_isstr = how_isstr, !.how = how, !.skipna = skipna]
       IN  IF dim_isstr /\ ~HasVariable(rs.self, dim)
           THEN rs' = [r EXCEPT !.pc = "raised", !.err = "KeyError", !.err_at = "getitem"]
           ELSE rs' = [r EXCEPT !.pc = "key", !.dim_name = dim]

\* group = DataArray(dim, name=RESAMPLE_DIM)
DeriveKey ==
    /\ rs.pc = "key"
    /\ RsFrame
    /\ rs' = [rs EXCEPT !.pc = "grouper", !.group_name = RESAMPLE_DIM,
                        !.trace = Append(@, "key")]

\* time_grouper = pd.TimeGrouper(freq=freq, how=how, ...)
MakeGrouper ==
    /\ rs.pc = "grouper"
    /\ RsFrame
    /\ rs' = [rs EXCEPT !.pc = "groupby", !.trace = Append(@, "grouper")]

\* gb = self.groupby_cls(self, group, grouper=time_grouper)
MakeGroupBy ==
    /\ rs.pc = "groupby"
    /\ RsFrame
    /\ LET e == groupby_error(rs.self, rs.dim_name)
       IN  IF e # "" THEN RsRaise(e, "groupby")
           ELSE rs' = [rs EXCEPT !.pc = "dispatch", !.trace = Append(@, "groupby")]

\* "if isinstance(how, basestring): f = getattr(gb, how)"
Dispatch ==
    /\ rs.pc = "dispatch"
    /\ RsFrame
    /\ IF rs.how_isstr
       THEN IF rs.how \in gb_members
            THEN rs' = [rs EXCEPT !.pc = "aggregate", !.f = rs.how]
            ELSE RsRaise("AttributeError", "getattr")
       ELSE rs' = [rs EXCEPT !.pc = "aggregate"]

\* the call that computes result: f(skipna=skipna), f(dim=dim.name,
\* skipna=skipna) or gb.reduce(how, dim=dim.name)
Aggregate ==
    /\ rs.pc = "aggregate"
    /\ RsFrame
    /\ LET call == IF rs.how_isstr THEN named_call(rs.f, rs.dim_name, rs.skipna)
                   ELSE func_call(rs.how, rs.dim_name, rs.skipna)
           r == gb_call(rs.self, rs.dim_name, rs.group_name, call)
       IN  IF r.err # ""
           THEN rs' = [rs EXCEPT !.pc = "raised", !.err = r.err, !.err_at = "call",
                                 !.calls = Append(@, call)]
           ELSE rs' = [rs EXCEPT !.pc = "rename", !.calls = Append(@, call),
                                 !.trace = Append(@, "aggregate"),
                                 !.has_result = TRUE, !.result = r.dims]

\* result = result.rename({RESAMPLE_DIM: dim.name})
Rename ==
    /\ rs.pc = "rename"
    /\ RsFrame
    /\ rs' = [rs EXCEPT !.pc = "return", !.trace = Append(@, "rename"),
                        !.result = rename(@, rename_dict(rs.dim_name))]

\* return result
Return ==
    /\ rs.pc = "return"
    /\ RsFrame
    /\ rs' = [rs EXCEPT !.pc = "returned"]

RsNext ==
    \/ \E isstr \in BOOLEAN, dim \in Names, how \in HowStrings, skipna \in SkipnaVals :
          Resample(isstr, dim, TRUE, how, skipna)
    \/ \E isstr \in BOOLEAN, dim \in Names, how \in HowFuncs, skipna \in SkipnaVals :
          Resample(isstr, dim, FALSE, how, skipna)
    \/ DeriveKey
    \/ MakeGrouper
    \/ MakeGroupBy
    \/ Dispatch
    \/ Aggregate
    \/ Rename
    \/ Return

\* the last call was given a string that names no aggregation
RsUnknownHow ==
    rs.pc # "idle" /\ rs.how_isstr /\ rs.how \notin AggNames \cup Selections

\* C8: a string how that names no aggregation (not one of the container's
\* aggregations, not first or last) ends the call with the error of the
\* lookup, raised where the name is looked up: no call is made on the
\* grouping object, nothing is renamed and nothing returned, also when the
\* string names some other member of the grouping object.
C8_UnknownHowRaises ==
    RsUnknownHow =>
        /\ rs.pc \notin {"aggregate", "rename", "return", "returned"}
        /\ rs.calls = <<>>
        /\ ~rs.has_result
        /\ (rs.pc = "raised" /\ rs.err_at \notin {"getitem", "groupby"}) =>
              (rs.err = "AttributeError" /\ rs.err_at = "getattr")

\* the last call was given an aggregation name, first, last or a function
RsKnownHow == rs.pc # "idle" /\ (rs.how_isstr => rs.how \in AggNames \cup Selections)

\* C9: first and last are called with skipna only; any other aggregation
\* with dim, the resampled dimension's name, and skipna; for a function
\* gb.reduce is called with the function and dim. Exactly one call is made
\* and a skipna the caller gave (True or False) is among its arguments.
C9_DispatchForwardsSkipna ==
    (RsKnownHow /\ rs.has_result) =>
        /\ Len(rs.calls) = 1
        /\ LET c == rs.calls[1]
           IN  /\ (rs.how_isstr /\ rs.how \in Selections) =>
                      (c.target = rs.how /\ c.func = "" /\ DOMAIN c.kw = {"skipna"})
               /\ (rs.how_isstr /\ rs.how \in AggNames) =>
                      /\ c.target = rs.how /\ c.func = ""
                      /\ DOMAIN c.kw = {"dim", "skipna"}
                      /\ c.kw["dim"] = rs.dim_name
               /\ ~rs.how_isstr =>
                      /\ c.target = "reduce" /\ c.func = rs.how
                      /\ "dim" \in DOMAIN c.kw
                      /\ c.kw["dim"] = rs.dim_name
               /\ rs.skipna # "None" =>
                      /\ "skipna" \in DOMAIN c.kw
                      /\ c.kw["skipna"] = rs.skipna

\* the phases of a call that returns
RsPhases == <<"key", "grouper", "groupby", "aggregate", "rename">>

\* C10: the phases of a call happen in the order key derivation (the group
\* array is named RESAMPLE_DIM), grouper and grouping construction,
\* aggregation, rename, on every dispatch path; what is returned has the
\* dimension named RESAMPLE_DIM renamed to the resampled dimension's name, so
\* RESAMPLE_DIM is no dimension of it; and the object resample is called on
\* is never changed.
C10_ResamplePhases ==
    /\ [](/\ Len(rs.trace) <= Len(RsPhases)
          /\ rs.trace = SubSeq(RsPhases, 1, Len(rs.trace))
          /\ rs.pc = "returned" =>
                /\ rs.trace = RsPhases
                /\ rs.group_name = RESAMPLE_DIM
                /\ RESAMPLE_DIM \notin Range(rs.result)
                /\ rs.dim_name \in Range(rs.result)
                /\ rs.result = rs.self.dims)
    /\ [][rs'.self = rs.self]_vars

\* C10's case: a call with how='first' has returned
C10_Witness ==
    /\ rs.pc = "returned"
    /\ rs.how_isstr /\ rs.how = "first"
    /\ Len(rs.self.dims) = 2
    /\ rs.result = rs.self.dims

(***************************************************************************)
(* The specifications, one per component.                                  *)
(***************************************************************************)
InitAxis == AxisInit /\ AttrIdle /\ IterIdle /\ SqIdle /\ PrIdle /\ RedIdle /\ RsIdleInit
InitAttr == AxisIdle /\ AttrInit /\ IterIdle /\ SqIdle /\ PrIdle /\ RedIdle /\ RsIdleInit
InitIter == AxisIdle /\ AttrIdle /\ IterInit /\ SqIdle /\ PrIdle /\ RedIdle /\ RsIdleInit
InitSq == AxisIdle /\ AttrIdle /\ IterIdle /\ SqInit /\ PrIdle /\ RedIdle /\ RsIdleInit
InitPr == AxisIdle /\ AttrIdle /\ IterIdle /\ SqIdle /\ PrInit /\ RedIdle /\ RsIdleInit
InitRed == AxisIdle /\ AttrIdle /\ IterIdle /\ SqIdle /\ PrIdle /\ RedInit /\ RsIdleInit
InitRs == AxisIdle /\ AttrIdle /\ IterIdle /\ SqIdle /\ PrIdle /\ RedIdle /\ RsInit

SpecAxis == InitAxis /\ [][AxisNext]_vars
SpecAttr == InitAttr /\ [][AttrNext]_vars
SpecIter == InitIter /\ [][IterNext]_vars
SpecSqueeze == InitSq /\ [][SqNext]_vars
SpecPromote == InitPr /\ [][PrNext]_vars
SpecReduce == InitRed /\ [][RedNext]_vars
SpecResample == InitRs /\ [][RsNext]_vars

\* every component at once
Init ==
    AxisInit /\ AttrInit /\ IterInit /\ SqInit /\ PrInit /\ RedInit /\ RsInit
Next ==
    AxisNext \/ AttrNext \/ IterNext \/ SqNext \/ PrNext \/ RedNext \/ RsNext
Spec == Init /\ [][Next]_vars
====
